---- MODULE Spec2Model ----
(***************************************************************************)
(* Model of the Telegram download bot (src/bot.py): the session table      *)
(* context.bot_data, the three database tables, the scratch directory and  *)
(* the handlers handle_url and handle_callback.                             *)
(*                                                                         *)
(* Scheduling.  main() builds the Application with                         *)
(* Application.builder().token(TOKEN).build() (bot.py:1112): no            *)
(* concurrent_updates, so the dispatcher awaits one handler to its end     *)
(* before it takes the next update.  Updates that arrive meanwhile wait in *)
(* the update queue (pending); an update that arrives while no handler     *)
(* runs is dispatched at once.  A handler is modelled as the activation    *)
(* record cur; it advances in steps cut at its backend calls.              *)
(***************************************************************************)
EXTENDS Integers, Sequences, FiniteSets, TLC

VARIABLES
  now,          \* wall clock, in ticks
  pending,      \* update queue: updates received, not yet dispatched
  cur,          \* activation record of the running handler, or Idle
  bot_data,     \* context.bot_data: token -> session entry
  nextToken,    \* tokens issued so far + 1 (uuid4 never repeats)
  interactions, \* table interactions: user -> timestamp -> number of rows
  admitted,     \* sessions opened by handle_url: user -> timestamp -> number
  user_history, \* table user_history: set of rows
  nextId,       \* SERIAL id of the next user_history row
  errors,       \* table errors: number of rows
  files,        \* scratch directory: set of files
  reply,        \* the last text message the bot sent
  keyboard,     \* the buttons under that message: label and callback data
  delivered     \* the media files sent in answer to the update handled last

vars == <<now, pending, cur, bot_data, nextToken, interactions, admitted,
          user_history, nextId, errors, files, reply, keyboard, delivered>>

-----------------------------------------------------------------------------
(* Bounds of the model *)

MaxTime == 2            \* the clock stops here
TicksPerHour == 2       \* clock resolution: ticks in one hour
MaxUrls == 2            \* URLs in one message
MaxPending == 1         \* updates waiting in the queue
MaxTokens == 2          \* sessions ever opened (specification Spec)
MaxRateTokens == 3      \* sessions opened after the start (specification SpecRate)
MaxLive == 1            \* live sessions when a new message is accepted
MaxErrors == 1          \* rows the errors table takes before its inserts fail
MaxParts == 3           \* lexical parts of a URL string
MaxHistory == 2         \* user_history rows ever inserted before its inserts fail

(* Program constants *)

RateLimit == 10         \* bot.py:322
WindowHours == 1        \* bot.py:316
VideoLimitMB == 50      \* bot.py:871
AudioLimitMB == 50      \* bot.py:660
ImageLimitMB == 10      \* bot.py:748
SplitPartMB == 50       \* bot.py:1034
HistoryKeep == 100      \* bot.py:815
CallbackDataMax == 64   \* bot.py:583

MB == 1024 * 1024

Users == {101, 102}
Time == 0..MaxTime
Window == WindowHours * TicksPerHour

-----------------------------------------------------------------------------
(* URLs.  A URL is the sequence of its lexical parts. *)

Urls == { <<"https://", "www.", "youtube.com", "/watch">>,
          <<"https://", "vimeo.com", "/9">>,
          <<"https://", "example.com">> }

Schemes == {"http://", "https://"}
SupportedHosts == {"youtube.com", "instagram.com", "twitter.com", "tiktok.com", "vimeo.com"}

validate_urlMutant(url) ==
  /\ Len(url) >= 2
  /\ url[1] \in Schemes
  /\ \/ url[2] \in SupportedHosts \cup {"youtu.be"}
     \/ url[2] = "www." /\ Len(url) >= 3 /\ url[3] \in SupportedHosts \cup {"youtu.be"}

\* re.match(pattern, url) for r"https?://(www\.)?<host>": a prefix match
validate_url(url) ==
  /\ Len(url) >= 2
  /\ url[1] \in Schemes
  /\ \/ url[2] \in SupportedHosts
     \/ url[2] = "www." /\ Len(url) >= 3 /\ url[3] \in SupportedHosts

Contains(url, part) == \E i \in 1..Len(url) : url[i] = part

get_platformMutant(url) ==
  IF Contains(url, "vimeo.com") THEN "vimeo"
  ELSE IF Contains(url, "tiktok.com") THEN "tiktok"
  ELSE IF Contains(url, "twitter.com") THEN "twitter"
  ELSE IF Contains(url, "instagram.com") THEN "instagram"
  ELSE IF Contains(url, "youtube.com") \/ Contains(url, "youtu.be") THEN "youtube"
  ELSE "unknown"

\* "<host>" in url, tested in the order of the if/elif chain
get_platform(url) ==
  IF Contains(url, "youtube.com") \/ Contains(url, "youtu.be") THEN "youtube"
  ELSE IF Contains(url, "instagram.com") THEN "instagram"
  ELSE IF Contains(url, "twitter.com") THEN "twitter"
  ELSE IF Contains(url, "tiktok.com") THEN "tiktok"
  ELSE IF Contains(url, "vimeo.com") THEN "vimeo"
  ELSE "unknown"

\* re.split(r"[\n,]", text) with the empty pieces dropped: a message is the
\* sequence of its URLs
Messages == UNION { [1..n -> Urls] : n \in 1..MaxUrls }

-----------------------------------------------------------------------------
(* Updates and the handler activation record *)

Idle == [pc |-> "idle"]

NoReply == [to |-> 0, text |-> "none", token |-> 0, n |-> 0]

\* the next message sent: the user it answers, its text, the session it is
\* about, and a bit that tells it from the message before it
Say(u, text, t) == [to |-> u, text |-> text, token |-> t, n |-> 1 - reply.n]

\* reply_text(text, reply_markup=kb); the menu that show_menu sends after it
\* is not recorded
\* InlineKeyboardButton(text, callback_data=data); data is the sequence of
\* the fields that "|" separates
Button(text, data) == [text |-> text, data |-> data]

Send(u, text, t, kb) == reply' = Say(u, text, t) /\ keyboard' = kb

UrlUpdate(u, m) == [kind |-> "url", user |-> u, urls |-> m, data |-> <<>>]
CallbackUpdate(u, d) == [kind |-> "callback", user |-> u, urls |-> <<>>, data |-> d]
CommandUpdate(u, c) == [kind |-> "command", user |-> u, urls |-> <<>>, data |-> <<c>>]

Live == DOMAIN bot_data

ZeroRows == [u \in Users |-> [t \in Time |-> 0]]

\* rows of table with user_id = u AND timestamp > since
CountSince(table, u, since) ==
  LET RECURSIVE Sum(_)
      Sum(t) == IF t > MaxTime THEN 0
                ELSE (IF t > since THEN table[u][t] ELSE 0) + Sum(t + 1)
  IN Sum(0)

\* SELECT COUNT(*) FROM interactions WHERE user_id = u AND timestamp > one_hour_ago
RecentCount(u, one_hour_ago) == CountSince(interactions, u, one_hour_ago)

\* an INSERT INTO errors succeeds or raises
ErrorLogResults == IF errors < MaxErrors THEN BOOLEAN ELSE {FALSE}

AddRow(table, u) == [table EXCEPT ![u][now] = @ + 1]

Init ==
  /\ now = 0
  /\ pending = <<>>
  /\ cur = Idle
  /\ bot_data = [t \in {} |-> 0]
  /\ nextToken = 1
  /\ interactions = ZeroRows
  /\ admitted = ZeroRows
  /\ user_history = {}
  /\ nextId = 1
  /\ errors = 0
  /\ files = {}
  /\ reply = NoReply
  /\ keyboard = <<>>
  /\ delivered = <<>>

-----------------------------------------------------------------------------
(* Environment *)

Tick ==
  /\ now < MaxTime
  /\ now' = now + 1
  /\ UNCHANGED <<pending, cur, bot_data, nextToken, interactions, admitted,
                 user_history, nextId, errors, files, reply, keyboard, delivered>>

\* the messages of msgs that open no token beyond cap
UrlArrivals(msgs, cap) ==
  { UrlUpdate(u, m) : u \in Users, m \in { x \in msgs : nextToken + Len(x) - 1 <= cap } }

CallbackArrivals(D) == { CallbackUpdate(u, d) : u \in Users, d \in D }

CommandArrivals(C) == { CommandUpdate(u, c) : u \in Users, c \in C }

\* an update of A arrives while a handler runs: it waits
Enqueue(A) ==
  /\ cur.pc # "idle"
  /\ Len(pending) < MaxPending
  /\ \E upd \in A : pending' = Append(pending, upd)
  /\ UNCHANGED <<now, cur, bot_data, nextToken, interactions, admitted,
                 user_history, nextId, errors, files, reply, keyboard, delivered>>

TakingMutant(A, kind) ==
  IF pending # <<>> THEN { x \in {Head(pending)} : x.kind = kind }
  ELSE { x \in A : x.kind = kind }

\* the updates the dispatcher may hand to a handler now: the head of the
\* queue, or with an empty queue an update of A that arrives
Taking(A, kind) ==
  IF cur.pc # "idle" THEN {}
  ELSE IF pending # <<>> THEN { x \in {Head(pending)} : x.kind = kind }
  ELSE { x \in A : x.kind = kind }

\* the update is taken; nothing has been sent in answer to it yet
Consume ==
  /\ pending' = IF pending # <<>> THEN Tail(pending) ELSE pending
  /\ delivered' = <<>>

-----------------------------------------------------------------------------
(* Session table *)

Put(t, entry) == [x \in Live \cup {t} |-> IF x = t THEN entry ELSE bot_data[x]]

DelMutant(t) == bot_data

\* del context.bot_data[t]
Del(t) == [x \in Live \ {t} |-> bot_data[x]]

-----------------------------------------------------------------------------
(* handle_url *)

RateLimitedMutant(recent_downloads) == recent_downloads > RateLimit

\* if recent_downloads >= 10
RateLimited(recent_downloads) == recent_downloads >= RateLimit

\* lines 307-333: split the text, check the rate limit once for the message
HandleUrlCheck(A) ==
  /\ \E upd \in Taking(A, "url"), dbok \in BOOLEAN :
       LET one_hour_ago == now - Window
       IN IF ~dbok
          THEN /\ Send(upd.user, "Error checking rate limit", 0, <<>>)
               /\ cur' = Idle
          ELSE IF RateLimited(RecentCount(upd.user, one_hour_ago))
          THEN /\ Send(upd.user, "Rate limit exceeded", 0, <<>>)
               /\ cur' = Idle
          ELSE /\ cur' = [pc |-> "url_loop", user |-> upd.user, urls |-> upd.urls, idx |-> 1]
               /\ UNCHANGED <<reply, keyboard>>
  /\ Consume
  /\ UNCHANGED <<now, bot_data, nextToken, interactions, admitted,
                 user_history, nextId, errors, files>>

\* lines 390-395: callback data is the f-string's fields, joined by "|"
MediaTypeKeyboard(request_id) ==
  << Button("Video", <<"media_video", request_id>>),
     Button("Audio", <<"media_audio", request_id>>),
     Button("Image", <<"media_image", request_id>>),
     Button("Cancel", <<"cancel", request_id>>) >>

\* lines 383-386 and 402-405: the text of the except branch is "Error
\* processing {url}: {str(e)}".  The exception is the backend's when
\* extract_info raised.  When extract_info returned but info has no
\* "filesize", estimated_size is the string "Unknown" and formatting it with
\* {estimated_size:.2f} raises ValueError("Unknown format code 'f' ...").
ErrorProcessing(discovered) ==
  IF discovered THEN "Error processing: Unknown format code" ELSE "Error processing"

HandleUrlItemMutant ==
  /\ cur.pc = "url_loop"
  /\ LET url == cur.urls[cur.idx]
         user_id == cur.user
         request_id == nextToken
     IN IF ~validate_url(url)
        THEN /\ Send(user_id, "Unsupported URL", 0, <<>>)
             /\ UNCHANGED <<bot_data, nextToken, interactions, admitted, errors>>
        ELSE /\ nextToken' = nextToken + 1
             /\ admitted' = AddRow(admitted, user_id)
             /\ \E logok \in BOOLEAN :
                  interactions' = IF logok THEN AddRow(interactions, user_id) ELSE interactions
             /\ \E discovered \in BOOLEAN, filesize \in BOOLEAN :
                  IF discovered /\ filesize
                  THEN /\ bot_data' = Put(request_id,
                                          [url |-> url, user_id |-> user_id,
                                           platform |-> get_platform(url), cancelled |-> FALSE])
                       /\ Send(user_id, "Select media type to download", request_id,
                               MediaTypeKeyboard(request_id))
                       /\ UNCHANGED errors
                  ELSE /\ UNCHANGED bot_data
                       /\ Send(user_id, ErrorProcessing(discovered), request_id, <<>>)
                       /\ \E errok \in ErrorLogResults : errors' = IF errok THEN errors + 1 ELSE errors
  /\ cur' = IF cur.idx = Len(cur.urls) \/ ~validate_url(cur.urls[cur.idx])
            THEN Idle ELSE [cur EXCEPT !.idx = @ + 1]
  /\ UNCHANGED <<now, pending, user_history, nextId, files, delivered>>

\* lines 335-423: one pass of "for url in urls"
HandleUrlItem ==
  /\ cur.pc = "url_loop"
  /\ LET url == cur.urls[cur.idx]
         user_id == cur.user
         request_id == nextToken
     IN IF ~validate_url(url)
        THEN /\ Send(user_id, "Unsupported URL", 0, <<>>)
             /\ UNCHANGED <<bot_data, nextToken, interactions, admitted, errors>>
        ELSE /\ nextToken' = nextToken + 1
             /\ admitted' = AddRow(admitted, user_id)
             /\ \E logok \in BOOLEAN :
                  interactions' = IF logok THEN AddRow(interactions, user_id) ELSE interactions
             /\ \E discovered \in BOOLEAN, filesize \in BOOLEAN :
                  IF discovered /\ filesize
                  THEN /\ bot_data' = Put(request_id,
                                          [url |-> url, user_id |-> user_id,
                                           platform |-> get_platform(url), cancelled |-> FALSE])
                       /\ Send(user_id, "Select media type to download", request_id,
                               MediaTypeKeyboard(request_id))
                       /\ UNCHANGED errors
                  ELSE /\ UNCHANGED bot_data
                       /\ Send(user_id, ErrorProcessing(discovered), request_id, <<>>)
                       /\ \E errok \in ErrorLogResults : errors' = IF errok THEN errors + 1 ELSE errors
  /\ cur' = IF cur.idx = Len(cur.urls) THEN Idle ELSE [cur EXCEPT !.idx = @ + 1]
  /\ UNCHANGED <<now, pending, user_history, nextId, files, delivered>>

-----------------------------------------------------------------------------
(* Scratch directory and backend results *)

\* sizes in bytes of the file a download may write: at and one byte over the
\* limit its handler applies; for videos also empty and three parts' worth
Sizes(stem) ==
  IF stem = "image" THEN { ImageLimitMB * MB, ImageLimitMB * MB + 1 }
  ELSE IF stem = "audio" THEN { AudioLimitMB * MB, AudioLimitMB * MB + 1 }
  ELSE { 0, VideoLimitMB * MB, VideoLimitMB * MB + 1, 3 * SplitPartMB * MB }

\* durations ffmpeg.probe may report, in seconds
Durations == { 9, 10 }

\* a file "<stem>.<ext>"; part files are "part_<n>.mp4".  owner is the token
\* of the session whose handler created the file
File(stem, ext, n, size, owner) ==
  [stem |-> stem, ext |-> ext, n |-> n, size |-> size, owner |-> owner]

SameName(f, g) == f.stem = g.stem /\ f.ext = g.ext /\ f.n = g.n

\* outtmpl "video.%(ext)s", "audio.%(ext)s", "image.%(ext)s": the extensions
\* the backend may produce; "part" is yt-dlp's unfinished download
Extensions(stem) ==
  IF stem = "video" THEN {"mp4", "part"}
  ELSE IF stem = "audio" THEN {"m4a"}
  ELSE {"jpg", "webp"}

\* the file is written unless one of that name is already there
Written(f) == IF \E g \in files : SameName(f, g) THEN files ELSE files \cup {f}

\* ffmpeg's run(overwrite_output=True): the file replaces one of that name
Overwritten(f) == { g \in files : ~SameName(g, f) } \cup {f}

\* os.listdir() filtered by file.startswith("<stem>.")
StartsWith(stem) == { f \in files : f.stem = stem }

\* file.startswith("image.") and file.endswith((".jpg", ".png", ".jpeg"))
ImageFiles == { f \in StartsWith("image") : f.ext \in {"jpg", "png", "jpeg"} }

Stem(handler) == IF handler \in {"quality", "split"} THEN "video" ELSE handler

\* the files the handler's search loop may stop at
Found(handler) == IF handler = "image" THEN ImageFiles ELSE StartsWith(Stem(handler))

\* the files the handler's except branch removes
Swept(handler) == Found(handler)

WithinLimitMutant(bytes, limit_mb) == bytes < limit_mb * MB

\* file_size = os.path.getsize(f) / (1024 * 1024); file_size <= limit_mb.
\* The division by 2^20 is exact in binary floating point.
WithinLimit(bytes, limit_mb) == bytes <= limit_mb * MB

\* math.ceil(file_size / 50)
num_parts(bytes) == (bytes + SplitPartMB * MB - 1) \div (SplitPartMB * MB)

chunkOrderMutant(i, n, duration, src, bytes) ==
  [kind |-> "part", size |-> src.size, bytes |-> bytes, part |-> n - i, of |-> n,
   ss |-> i * duration, t |-> duration, duration |-> duration]

chunkMutant(i, n, duration, src, bytes) ==
  [kind |-> "part", size |-> src.size, bytes |-> bytes, part |-> i + 1, of |-> n,
   ss |-> (i + 1) * duration, t |-> duration, duration |-> duration]

\* ffmpeg.input(video_file, ss=i * part_duration, t=part_duration) with
\* part_duration = duration / num_parts.  Times are kept as numerators over
\* the common denominator num_parts ("of"); size and duration are the source's,
\* bytes is the size of the part file that ffmpeg wrote.
chunk(i, n, duration, src, bytes) ==
  [kind |-> "part", size |-> src.size, bytes |-> bytes, part |-> i + 1, of |-> n,
   ss |-> i * duration, t |-> duration, duration |-> duration]

\* .output(output_file, c="copy", f="mp4"): the streams of the time range are
\* copied as they are, so the part holds the bytes the source has in that
\* range: its even share of the source, or, when the bitrate is uneven, up to
\* everything but one byte for each of the other parts.
PartBytes(src, n) == { src.size \div n, src.size - (n - 1) }

\* a whole file sent with reply_video / reply_audio / reply_photo
whole(kind, f) ==
  [kind |-> kind, size |-> f.size, bytes |-> f.size, part |-> 0, of |-> 0,
   ss |-> 0, t |-> 0, duration |-> 0]

-----------------------------------------------------------------------------
(* Table user_history *)

Mine(rows, u) == { r \in rows : r.user_id = u }

OldestMutant(rows) == { r \in rows : \A q \in rows : r.timestamp >= q.timestamp }

\* the rows ORDER BY timestamp DESC puts last
Oldest(rows) == { r \in rows : \A q \in rows : r.timestamp <= q.timestamp }

\* DELETE ... WHERE user_id = u AND id NOT IN (SELECT id ... ORDER BY timestamp
\* DESC LIMIT keep): the tables that may remain; rows of equal timestamp are
\* kept in no particular order
RECURSIVE Evict(_, _, _)
Evict(rows, u, keep) ==
  IF Cardinality(Mine(rows, u)) <= keep THEN {rows}
  ELSE UNION { Evict(rows \ {r}, u, keep) : r \in Oldest(Mine(rows, u)) }

\* INSERT INTO user_history ...; DELETE ...; commit
HistoryLogged(u, url, quality, media_type, platform) ==
  Evict(user_history \cup
          {[id |-> nextId, user_id |-> u, url |-> url, selected_quality |-> quality,
            media_type |-> media_type, platform |-> platform, timestamp |-> now]},
        u, HistoryKeep)

\* the transaction commits, or raises and leaves the table as it was
LogHistory(u, url, quality, media_type, platform) ==
  \/ /\ nextId <= MaxHistory
     /\ user_history' \in HistoryLogged(u, url, quality, media_type, platform)
     /\ nextId' = nextId + 1
  \/ UNCHANGED <<user_history, nextId>>

ClearedMutant(u) == {}

\* DELETE FROM user_history WHERE user_id = u
Cleared(u) == user_history \ Mine(user_history, u)

\* lines 197-215 and 490-505: delete and commit, count the user's rows, report.
\* The connection, the DELETE or the SELECT may raise: the handler's except
\* branch answers with raised_text, the delete committed or not.
ClearAndReport(u, raised_text) ==
  \/ /\ user_history' = Cleared(u)
     /\ LET count == Cardinality(Mine(user_history', u))
        IN IF count = 0
           THEN Send(u, "Your history has been cleared", 0, <<>>)
           ELSE Send(u, "Failed to clear history", 0, <<>>)
  \/ /\ user_history' \in { user_history, Cleared(u) }
     /\ Send(u, raised_text, 0, <<>>)

\* lines 195-219: the /clearhistory command
clear_history(A) ==
  /\ \E upd \in Taking(A, "command") :
       /\ upd.data[1] = "clearhistory"
       /\ ClearAndReport(upd.user, "Error clearing history")
  /\ Consume
  /\ UNCHANGED <<now, cur, bot_data, nextToken, interactions, admitted,
                 nextId, errors, files>>

-----------------------------------------------------------------------------
(* handle_callback *)

\* the callback queries with action tag a (data[0] of query.data.split("|"))
Callbacks(A, a) == { x \in Taking(A, "callback") : x.data[1] = a }

\* lines 436-535, command "clearhistory": a callback "menu|clearhistory"
HandleMenu(A) ==
  /\ \E upd \in Callbacks(A, "menu") :
       /\ upd.data[2] = "clearhistory"
       /\ ClearAndReport(upd.user, "Error processing command")
  /\ Consume
  /\ UNCHANGED <<now, cur, bot_data, nextToken, interactions, admitted,
                 nextId, errors, files>>

HandleCancelMutant(A) ==
  /\ \E upd \in Callbacks(A, "cancel") :
       LET request_id == upd.data[2]
       IN IF request_id \in Live
          THEN /\ bot_data' = [bot_data EXCEPT ![request_id].cancelled = TRUE]
               /\ Send(upd.user, "Operation cancelled", request_id, <<>>)
          ELSE UNCHANGED <<bot_data, reply, keyboard>>
  /\ Consume
  /\ UNCHANGED <<now, cur, nextToken, interactions, admitted,
                 user_history, nextId, errors, files>>

HandleCancelAgainMutant(A) ==
  /\ \E upd \in Callbacks(A, "cancel") :
       LET request_id == upd.data[2]
       IN IF request_id \in Live
          THEN /\ bot_data' = Del(request_id)
               /\ Send(upd.user, "Operation cancelled", request_id, <<>>)
          ELSE /\ Send(upd.user, "Session expired", request_id, <<>>)
               /\ UNCHANGED bot_data
  /\ Consume
  /\ UNCHANGED <<now, cur, nextToken, interactions, admitted,
                 user_history, nextId, errors, files>>

\* lines 1093-1100
HandleCancel(A) ==
  /\ \E upd \in Callbacks(A, "cancel") :
       LET request_id == upd.data[2]
       IN IF request_id \in Live
          THEN /\ bot_data' = Del(request_id)
               /\ Send(upd.user, "Operation cancelled", request_id, <<>>)
          ELSE UNCHANGED <<bot_data, reply, keyboard>>
  /\ Consume
  /\ UNCHANGED <<now, cur, nextToken, interactions, admitted,
                 user_history, nextId, errors, files>>

-----------------------------------------------------------------------------
(* Extraction backend: format listings *)

UuidLen == 36           \* characters of str(uuid.uuid4()), bot.py:344

Format(id, vcodec, resolution, hasurl) ==
  [format_id |-> id, vcodec |-> vcodec, resolution |-> resolution, url |-> hasurl]

F18 == Format("18", "avc1", "640x360", TRUE)
F22 == Format("22", "avc1", "1280x720", TRUE)
F136 == Format("136", "avc1", "1280x720", TRUE)
F140 == Format("140", "none", "audio only", TRUE)
FHls == Format("hls-akamai-1080p", "avc1", "1920x1080", TRUE)

\* info.get("formats", []) of one extract_info call
FormatLists == { <<>>, <<F140>>, <<FHls>>, <<F18, F140, FHls>>, <<F22, F136>> }

\* format ids a callback query may carry
FormatIds == {"18"}

\* f.get("vcodec") != "none" and f.get("resolution") and f.get("url")
Playable(f) == f.vcodec # "none" /\ f.resolution # "" /\ f.url

\* len(f"quality|{request_id}|{format_id}|video".encode('utf-8'))
QualityDataBytes(format_id) ==
  Len("quality") + 1 + UuidLen + 1 + Len(format_id) + 1 + Len("video")

FitsMutant(f) == QualityDataBytes(f.format_id) > 0

\* "if len(...) > 64: continue"
Fits(f) == QualityDataBytes(f.format_id) <= CallbackDataMax

\* lines 578-587: one button per format whose callback data fits, then Cancel
QualityKeyboard(request_id, video_formats) ==
  LET fitting == SelectSeq(video_formats, Fits)
  IN [i \in 1..Len(fitting) |->
        Button(fitting[i].resolution,
               <<"quality", request_id, fitting[i].format_id, "video">>)]
       \o << Button("Cancel", <<"cancel", request_id>>) >>

\* lines 879-894
FallbackKeyboard(request_id, format_id) ==
  << Button("Direct Download Link", <<"link", request_id, format_id>>),
     Button("Split into Parts", <<"split", request_id, format_id>>),
     Button("Cancel", <<"cancel", request_id>>) >>

CancelKeyboard(request_id) == << Button("Cancel", <<"cancel", request_id>>) >>

-----------------------------------------------------------------------------
(* handle_callback: media, quality, link, split *)

ExpiredMutant(upd, request_id) ==
  /\ Send(upd.user, "Session expired", request_id, <<>>)
  /\ errors' = IF errors < MaxErrors THEN errors + 1 ELSE errors
  /\ UNCHANGED <<cur, bot_data, user_history, nextId, files>>

\* "if request_id not in context.bot_data": answer and return
Expired(upd, request_id) ==
  /\ Send(upd.user, "Session expired", request_id, <<>>)
  /\ UNCHANGED <<cur, bot_data, user_history, nextId, errors, files>>

\* the handler goes on to its backend download.  first is the id the next
\* history row would get when the handler started
Fetching(handler, upd, request_id, format_id) ==
  [pc |-> "download", handler |-> handler, user |-> upd.user, token |-> request_id,
   format_id |-> format_id, url |-> bot_data[request_id].url,
   platform |-> bot_data[request_id].platform, raised |-> FALSE, first |-> nextId]

ListingFailedMutant(upd, request_id) ==
  /\ Send(upd.user, "Error processing video", request_id, <<>>)
  /\ \E errok \in ErrorLogResults : errors' = IF errok THEN errors + 1 ELSE errors
  /\ LogHistory(upd.user, bot_data[request_id].url, "none", "video",
                bot_data[request_id].platform)
  /\ bot_data' = Del(request_id)

\* lines 596-616: the except branch of the video listing
ListingFailed(upd, request_id) ==
  /\ Send(upd.user, "Error processing video", request_id, <<>>)
  /\ \E errok \in ErrorLogResults : errors' = IF errok THEN errors + 1 ELSE errors
  /\ UNCHANGED <<user_history, nextId>>
  /\ bot_data' = Del(request_id)

\* lines 537-789, up to the download of the audio and image branches
HandleMedia(A) ==
  /\ \E upd \in Callbacks(A, "media") :
       LET media_type == upd.data[2]
           request_id == upd.data[3]
       IN IF request_id \notin Live THEN Expired(upd, request_id)
          ELSE IF media_type = "video"
          THEN /\ \/ /\ \E formats \in FormatLists :
                          LET video_formats == SelectSeq(formats, Playable)
                          IN IF video_formats = <<>>
                             THEN /\ Send(upd.user, "No downloadable video formats found",
                                          request_id, <<>>)
                                  /\ bot_data' = Del(request_id)
                             ELSE /\ Send(upd.user, "Select a video quality", request_id,
                                          QualityKeyboard(request_id, video_formats))
                                  /\ UNCHANGED bot_data
                     /\ UNCHANGED <<errors, user_history, nextId>>
                  \/ ListingFailed(upd, request_id)
               /\ UNCHANGED <<cur, files>>
          ELSE /\ cur' = Fetching(media_type, upd, request_id, media_type)
               /\ Send(upd.user, "Downloading", request_id, <<>>)
               /\ UNCHANGED <<bot_data, user_history, nextId, errors, files>>
  /\ Consume
  /\ UNCHANGED <<now, nextToken, interactions, admitted>>

\* lines 791-842
HandleQuality(A) ==
  /\ \E upd \in Callbacks(A, "quality") :
       LET request_id == upd.data[2]
           format_id == upd.data[3]
           media_type == upd.data[4]
       IN IF request_id \notin Live THEN Expired(upd, request_id)
          ELSE /\ LogHistory(upd.user, bot_data[request_id].url, format_id, media_type,
                             bot_data[request_id].platform)
               /\ cur' = Fetching("quality", upd, request_id, format_id)
               /\ Send(upd.user, "Downloading", request_id, CancelKeyboard(request_id))
               /\ UNCHANGED <<bot_data, errors, files>>
  /\ Consume
  /\ UNCHANGED <<now, nextToken, interactions, admitted>>

\* lines 973-1002
HandleSplit(A) ==
  /\ \E upd \in Callbacks(A, "split") :
       LET request_id == upd.data[2]
           format_id == upd.data[3]
       IN IF request_id \notin Live THEN Expired(upd, request_id)
          ELSE /\ cur' = Fetching("split", upd, request_id, format_id)
               /\ Send(upd.user, "Splitting video", request_id, CancelKeyboard(request_id))
               /\ UNCHANGED <<bot_data, user_history, nextId, errors, files>>
  /\ Consume
  /\ UNCHANGED <<now, nextToken, interactions, admitted>>

\* lines 934-971
HandleLink(A) ==
  /\ \E upd \in Callbacks(A, "link") :
       LET request_id == upd.data[2]
           format_id == upd.data[3]
       IN IF request_id \notin Live THEN Expired(upd, request_id)
          ELSE /\ \/ \E formats \in FormatLists :
                       IF \E i \in 1..Len(formats) : formats[i].format_id = format_id
                       THEN Send(upd.user, "Download the video here", request_id, <<>>)
                       ELSE UNCHANGED <<reply, keyboard>>
                  \/ Send(upd.user, "Error fetching download link", request_id, <<>>)
               /\ bot_data' = Del(request_id)
               /\ UNCHANGED <<cur, user_history, nextId, errors, files>>
  /\ Consume
  /\ UNCHANGED <<now, nextToken, interactions, admitted>>

\* a callback whose action tag matches no branch of handle_callback (the
\* buttons "media_video|<token>" of lines 391-393 among them): answered, ignored
HandleOther(A) ==
  /\ \E upd \in Taking(A, "callback") :
       upd.data[1] \notin {"menu", "media", "quality", "link", "split", "cancel"}
  /\ Consume
  /\ UNCHANGED <<now, cur, bot_data, nextToken, interactions, admitted,
                 user_history, nextId, errors, files, reply, keyboard>>

-----------------------------------------------------------------------------
(* The download and what follows it *)

\* ydl.download([url]) / ydl.extract_info(url, download=True): it returns or
\* raises, having written a file or not
Download ==
  /\ cur.pc = "download"
  /\ \E raised \in BOOLEAN :
       /\ cur' = [cur EXCEPT !.pc = "fetched", !.raised = raised]
       /\ \/ UNCHANGED files
          \/ \E ext \in Extensions(Stem(cur.handler)), size \in Sizes(Stem(cur.handler)) :
               files' = Written(File(Stem(cur.handler), ext, 0, size, cur.token))
  /\ UNCHANGED <<now, pending, bot_data, nextToken, interactions, admitted,
                 user_history, nextId, errors, reply, keyboard, delivered>>

LimitMutant(handler) == VideoLimitMB

\* the limit the handler compares file_size with
Limit(handler) == IF handler = "image" THEN ImageLimitMB
                  ELSE IF handler = "audio" THEN AudioLimitMB ELSE VideoLimitMB

\* the except branches of the audio and image downloads (692-701, 780-789)
MediaFailed ==
  /\ Send(cur.user, "Error downloading", cur.token, <<>>)
  /\ files' = files \ Swept(cur.handler)
  /\ bot_data' = Del(cur.token)
  /\ cur' = Idle
  /\ UNCHANGED delivered

\* lines 638-668 and 724-756: find the file, check the cancel flag, apply the
\* size limit, remove the file
PostMedia ==
  /\ cur.pc = "fetched" /\ cur.handler \in {"audio", "image"}
  /\ IF cur.raised THEN MediaFailed
     ELSE IF Found(cur.handler) = {}
     THEN /\ Send(cur.user, "Error: file not found", cur.token, <<>>)
          /\ bot_data' = Del(cur.token)
          /\ cur' = Idle
          /\ UNCHANGED <<files, delivered>>
     ELSE \E f \in Found(cur.handler) :
            IF bot_data[cur.token].cancelled
            THEN /\ Send(cur.user, "Download cancelled", cur.token, <<>>)
                 /\ files' = files \ {f}
                 /\ bot_data' = Del(cur.token)
                 /\ cur' = Idle
                 /\ UNCHANGED delivered
            ELSE IF WithinLimit(f.size, Limit(cur.handler))
            THEN \/ /\ delivered' = Append(delivered, whole(cur.handler, f))
                    /\ files' = files \ {f}
                    /\ cur' = [cur EXCEPT !.pc = "log"]
                    /\ UNCHANGED <<bot_data, reply, keyboard>>
                 \/ MediaFailed
            ELSE /\ Send(cur.user, "Size exceeds limit", cur.token, <<>>)
                 /\ files' = files \ {f}
                 /\ cur' = [cur EXCEPT !.pc = "log"]
                 /\ UNCHANGED <<bot_data, delivered>>
  /\ UNCHANGED <<now, pending, nextToken, interactions, admitted,
                 user_history, nextId, errors>>

FinishMediaMutant ==
  /\ cur.pc = "log"
  /\ \/ /\ nextId <= MaxHistory
        /\ user_history' \in HistoryLogged(cur.user, cur.url, cur.handler, cur.handler,
                                           cur.platform)
        /\ nextId' = nextId + 1
        /\ Send(cur.user, "Download complete", cur.token, <<>>)
        /\ bot_data' = Del(cur.token)
        /\ cur' = Idle
        /\ UNCHANGED <<files, delivered>>
     \/ /\ UNCHANGED <<user_history, nextId>>
        /\ MediaFailed
  /\ UNCHANGED <<now, pending, nextToken, interactions, admitted, errors>>

\* lines 670-690 and 758-778: log to history, report, close the session
FinishMedia ==
  /\ cur.pc = "log"
  /\ LogHistory(cur.user, cur.url, cur.handler, cur.handler, cur.platform)
  /\ Send(cur.user, "Download complete", cur.token, <<>>)
  /\ bot_data' = Del(cur.token)
  /\ cur' = Idle
  /\ UNCHANGED <<now, pending, nextToken, interactions, admitted,
                 errors, files, delivered>>

\* lines 907-932: the except branch of the quality download
QualityFailed ==
  /\ Send(cur.user, "Error downloading", cur.token, <<>>)
  /\ files' = files \ Swept("quality")
  /\ \E errok \in ErrorLogResults : errors' = IF errok THEN errors + 1 ELSE errors
  /\ bot_data' = Del(cur.token)
  /\ cur' = Idle
  /\ UNCHANGED delivered

\* lines 847-905
PostQuality ==
  /\ cur.pc = "fetched" /\ cur.handler = "quality"
  /\ IF cur.raised THEN QualityFailed
     ELSE IF Found("quality") = {}
     THEN /\ Send(cur.user, "Error: file not found", cur.token, <<>>)
          /\ bot_data' = Del(cur.token)
          /\ cur' = Idle
          /\ UNCHANGED <<files, errors, delivered>>
     ELSE \E f \in Found("quality") :
            IF bot_data[cur.token].cancelled
            THEN /\ Send(cur.user, "Download cancelled", cur.token, <<>>)
                 /\ files' = files \ {f}
                 /\ bot_data' = Del(cur.token)
                 /\ cur' = Idle
                 /\ UNCHANGED <<errors, delivered>>
            ELSE IF WithinLimit(f.size, VideoLimitMB)
            THEN \/ /\ delivered' = Append(delivered, whole("video", f))
                    /\ files' = files \ {f}
                    /\ Send(cur.user, "Download complete", cur.token, <<>>)
                    /\ bot_data' = Del(cur.token)
                    /\ cur' = Idle
                    /\ UNCHANGED errors
                 \/ QualityFailed
            ELSE /\ Send(cur.user, "Size exceeds limit. Choose an option", cur.token,
                         FallbackKeyboard(cur.token, cur.format_id))
                 /\ files' = files \ {f}
                 /\ bot_data' = Del(cur.token)
                 /\ cur' = Idle
                 /\ UNCHANGED <<errors, delivered>>
  /\ UNCHANGED <<now, pending, nextToken, interactions, admitted, user_history, nextId>>

\* lines 1058-1091: the except branch of the split; the history row and the
\* errors row are written in one transaction
SplitFailed ==
  /\ Send(cur.user, "Error splitting video", cur.token, <<>>)
  /\ files' = files \ Swept("split")
  /\ \/ /\ errors < MaxErrors /\ nextId <= MaxHistory
        /\ user_history' \in HistoryLogged(cur.user, cur.url, cur.format_id, "video", cur.platform)
        /\ nextId' = nextId + 1
        /\ errors' = errors + 1
     \/ UNCHANGED <<user_history, nextId, errors>>
  /\ bot_data' = Del(cur.token)
  /\ cur' = Idle
  /\ UNCHANGED delivered

\* lines 1007-1035: find the file, check the cancel flag, probe, plan the parts
PostSplit ==
  /\ cur.pc = "fetched" /\ cur.handler = "split"
  /\ IF cur.raised THEN SplitFailed
     ELSE IF Found("split") = {}
     THEN /\ Send(cur.user, "Error: file not found", cur.token, <<>>)
          /\ bot_data' = Del(cur.token)
          /\ cur' = Idle
          /\ UNCHANGED <<files, user_history, nextId, errors, delivered>>
     ELSE \E f \in Found("split") :
            IF bot_data[cur.token].cancelled
            THEN /\ Send(cur.user, "Splitting cancelled", cur.token, <<>>)
                 /\ files' = files \ {f}
                 /\ bot_data' = Del(cur.token)
                 /\ cur' = Idle
                 /\ UNCHANGED <<user_history, nextId, errors, delivered>>
            ELSE \/ \E duration \in Durations :
                      IF num_parts(f.size) = 0
                      THEN SplitFailed     \* duration / num_parts: ZeroDivisionError
                      ELSE /\ cur' = [pc |-> "split_loop", handler |-> "split", user |-> cur.user,
                                      token |-> cur.token, format_id |-> cur.format_id,
                                      url |-> cur.url, platform |-> cur.platform,
                                      first |-> cur.first, video_file |-> f, duration |-> duration,
                                      num_parts |-> num_parts(f.size), i |-> 0]
                           /\ UNCHANGED <<bot_data, user_history, nextId, errors, files,
                                          reply, keyboard, delivered>>
                 \/ SplitFailed            \* ffmpeg.probe raises
  /\ UNCHANGED <<now, pending, nextToken, interactions, admitted>>

Part(n, owner) == File("part", "mp4", n, 0, owner)

\* lines 1037-1056: one pass of "for i in range(num_parts)", or the end
SplitStep ==
  /\ cur.pc = "split_loop"
  /\ IF cur.i < cur.num_parts
     THEN \/ /\ \E bytes \in PartBytes(cur.video_file, cur.num_parts) :
                   delivered' = Append(delivered,
                                       chunk(cur.i, cur.num_parts, cur.duration,
                                             cur.video_file, bytes))
                 \* run(overwrite_output=True), reply_video, os.remove(output_file)
             /\ files' = { g \in files : ~SameName(g, Part(cur.i + 1, cur.token)) }
             /\ cur' = [cur EXCEPT !.i = @ + 1]
             /\ UNCHANGED <<bot_data, user_history, nextId, errors, reply, keyboard>>
          \/ \E left \in { files, Overwritten(Part(cur.i + 1, cur.token)) } :
                 \* ffmpeg or reply_video raises, the part file written or not
               /\ Send(cur.user, "Error splitting video", cur.token, <<>>)
               /\ files' = left \ Swept("split")
               /\ \/ /\ errors < MaxErrors /\ nextId <= MaxHistory
                     /\ user_history' \in HistoryLogged(cur.user, cur.url, cur.format_id,
                                                        "video", cur.platform)
                     /\ nextId' = nextId + 1
                     /\ errors' = errors + 1
                  \/ UNCHANGED <<user_history, nextId, errors>>
               /\ bot_data' = Del(cur.token)
               /\ cur' = Idle
               /\ UNCHANGED delivered
     ELSE /\ files' = files \ {cur.video_file}
          /\ Send(cur.user, "Video splitting complete", cur.token, <<>>)
          /\ bot_data' = Del(cur.token)
          /\ cur' = Idle
          /\ UNCHANGED <<user_history, nextId, errors, delivered>>
  /\ UNCHANGED <<now, pending, nextToken, interactions, admitted>>

-----------------------------------------------------------------------------
(* Specification of the admission gate: URL submissions and cancel *)

ValidUrl == <<"https://", "www.", "youtube.com", "/watch">>
BadUrl == <<"https://", "example.com">>
RateMessages == { <<ValidUrl>>, <<BadUrl>>, <<ValidUrl, ValidUrl>>, <<BadUrl, ValidUrl>> }

RateArrivals ==
  (IF Cardinality(Live) < MaxLive THEN UrlArrivals(RateMessages, MaxRateTokens) ELSE {})
    \cup CallbackArrivals({ <<"cancel", t>> : t \in Live })

NextRate ==
  \/ Tick
  \/ HandleUrlCheck(RateArrivals)
  \/ HandleUrlItem
  \/ HandleCancel(RateArrivals)

\* The tables outlive the process (CREATE TABLE IF NOT EXISTS, lines 43-72):
\* at the start the interactions table may hold the rows of URL submissions
\* admitted shortly before; the session table starts empty.
PriorRows == {0, 8}

InitRate ==
  /\ now = 0
  /\ pending = <<>>
  /\ cur = Idle
  /\ bot_data = [t \in {} |-> 0]
  /\ nextToken = 1
  /\ \E prior \in [Users -> PriorRows] :
       /\ interactions = [u \in Users |-> [t \in Time |-> IF t = 0 THEN prior[u] ELSE 0]]
       /\ admitted = interactions
  /\ user_history = {}
  /\ nextId = 1
  /\ errors = 0
  /\ files = {}
  /\ reply = NoReply
  /\ keyboard = <<>>
  /\ delivered = <<>>

SpecRate == InitRate /\ [][NextRate]_vars

-----------------------------------------------------------------------------
(* Specification of the whole bot: one session at a time, clock at rest *)

Tokens == 0..(nextToken - 1)    \* 0: a token the bot never issued

\* query.data.split("|") of the callback queries a client may send: the
\* forms handle_callback dispatches on, and the form of the media-type
\* buttons, for every token issued so far
CallbackData ==
  { <<"media", k, t>> : k \in {"video", "audio", "image"}, t \in Tokens }
    \cup { <<"media_video", t>> : t \in Tokens }
    \cup { <<"quality", t, f, "video">> : t \in Tokens, f \in FormatIds }
    \cup { <<"link", t, f>> : t \in Tokens, f \in FormatIds }
    \cup { <<"split", t, f>> : t \in Tokens, f \in FormatIds }
    \cup { <<"cancel", t>> : t \in Tokens }

\* the token field of a callback query's data
TokenOf(data) == IF data[1] = "media" THEN data[3] ELSE data[2]

SpecMessages == { <<ValidUrl>>, <<BadUrl>> }

Arrivals ==
  (IF Cardinality(Live) < MaxLive THEN UrlArrivals(SpecMessages, MaxTokens) ELSE {})
    \cup CallbackArrivals(CallbackData)

\* what a client sends while a handler runs: it presses Cancel, or once more a
\* button of a keyboard shown for a live session
Presses ==
  CallbackArrivals({ d \in CallbackData : d[1] \in {"cancel", "quality", "link"} /\ d[2] \in Live })

Next ==
  \/ Enqueue(Presses)
  \/ HandleUrlCheck(Arrivals)
  \/ HandleUrlItem
  \/ HandleMedia(Arrivals)
  \/ HandleQuality(Arrivals)
  \/ HandleLink(Arrivals)
  \/ HandleSplit(Arrivals)
  \/ HandleCancel(Arrivals)
  \/ HandleOther(Arrivals)
  \/ Download
  \/ PostMedia
  \/ FinishMedia
  \/ PostQuality
  \/ PostSplit
  \/ SplitStep

Spec == Init /\ [][Next]_vars

-----------------------------------------------------------------------------
(* Specification of the scratch directory: two sessions opened by one       *)
(* message, their handlers run one after the other on the same directory    *)

DiskMessages == { <<ValidUrl, ValidUrl>> }

DiskArrivals ==
  { x \in UrlArrivals(DiskMessages, MaxTokens)
            \cup CallbackArrivals({ d \in CallbackData :
                                      /\ d[1] \in {"media", "quality", "link", "split", "cancel"}
                                      /\ TokenOf(d) \in Live }) : x.user = 101 }

NextDisk ==
  \/ HandleUrlCheck(DiskArrivals)
  \/ HandleUrlItem
  \/ HandleMedia(DiskArrivals)
  \/ HandleQuality(DiskArrivals)
  \/ HandleLink(DiskArrivals)
  \/ HandleSplit(DiskArrivals)
  \/ HandleCancel(DiskArrivals)
  \/ Download
  \/ PostMedia
  \/ FinishMedia
  \/ PostQuality
  \/ PostSplit
  \/ SplitStep

SpecDisk == Init /\ [][NextDisk]_vars

-----------------------------------------------------------------------------
(* Specification of two sessions served from one update queue: as SpecDisk, *)
(* and a button of a live session may be pressed while a handler runs       *)

PairPresses ==
  { x \in CallbackArrivals({ d \in CallbackData :
                               /\ \/ d[1] = "quality"
                                  \/ d[1] = "media" /\ d[2] = "audio"
                               /\ TokenOf(d) \in Live }) : x.user = 101 }

NextPair ==
  \/ Enqueue(PairPresses)
  \/ NextDisk

SpecPair == Init /\ [][NextPair]_vars

-----------------------------------------------------------------------------
(* Specification of the history table: one user's selections on a table   *)
(* that already holds rows                                                 *)

\* user_history outlives the process (CREATE TABLE IF NOT EXISTS, lines
\* 55-63).  The rows it holds at the start: n rows of user 101, older than
\* the start and two by two of equal timestamp, and one row of user 102.
\* Ids are counted from the value the SERIAL column hands out next.
PriorHistory(n) ==
  { [id |-> k - n, user_id |-> 101, url |-> ValidUrl, selected_quality |-> "18",
     media_type |-> "video", platform |-> "youtube", timestamp |-> (k \div 2) - n] : k \in 1..n }
    \cup { [id |-> 0 - n, user_id |-> 102, url |-> ValidUrl, selected_quality |-> "audio",
            media_type |-> "audio", platform |-> "youtube", timestamp |-> 0 - n] }

PriorCounts == { HistoryKeep - 1, HistoryKeep }

InitHistory ==
  /\ now = 0
  /\ pending = <<>>
  /\ cur = Idle
  /\ bot_data = [t \in {} |-> 0]
  /\ nextToken = 1
  /\ interactions = ZeroRows
  /\ admitted = ZeroRows
  /\ \E n \in PriorCounts : user_history = PriorHistory(n)
  /\ nextId = 1
  /\ errors = 0
  /\ files = {}
  /\ reply = NoReply
  /\ keyboard = <<>>
  /\ delivered = <<>>

\* user 101 submits a URL when no session is live, and selects audio, image,
\* a video quality or a split on a live session
HistoryArrivals ==
  { x \in (IF Cardinality(Live) < MaxLive
           THEN UrlArrivals({ <<ValidUrl>> }, MaxTokens) ELSE {})
          \cup CallbackArrivals({ d \in CallbackData :
                                    /\ \/ d[1] = "media" /\ d[2] \in {"audio", "image"}
                                       \/ d[1] \in {"quality", "split"}
                                    /\ TokenOf(d) \in Live }) :
      x.user = 101 }

NextHistory ==
  \/ Tick
  \/ HandleUrlCheck(HistoryArrivals)
  \/ HandleUrlItem
  \/ HandleMedia(HistoryArrivals)
  \/ HandleQuality(HistoryArrivals)
  \/ HandleSplit(HistoryArrivals)
  \/ Download
  \/ PostMedia
  \/ FinishMedia
  \/ PostQuality
  \/ PostSplit
  \/ SplitStep

SpecHistory == InitHistory /\ [][NextHistory]_vars

-----------------------------------------------------------------------------
(* Specification of clearing the history: two users select qualities and   *)
(* clear their histories, by command or by the menu callback               *)

\* rows of user 101 in the table at the start; user 102 has one
ClearCounts == { 0, 2 }

InitClear ==
  /\ now = 0
  /\ pending = <<>>
  /\ cur = Idle
  /\ bot_data = [t \in {} |-> 0]
  /\ nextToken = 1
  /\ interactions = ZeroRows
  /\ admitted = ZeroRows
  /\ \E n \in ClearCounts : user_history = PriorHistory(n)
  /\ nextId = 1
  /\ errors = 0
  /\ files = {}
  /\ reply = NoReply
  /\ keyboard = <<>>
  /\ delivered = <<>>

ClearArrivals ==
  (IF Cardinality(Live) < MaxLive THEN UrlArrivals({ <<ValidUrl>> }, MaxTokens) ELSE {})
    \cup CallbackArrivals({ d \in CallbackData : d[1] = "quality" /\ d[2] \in Live })
    \cup CallbackArrivals({ <<"menu", "clearhistory">> })
    \cup CommandArrivals({ "clearhistory" })

NextClear ==
  \/ HandleUrlCheck(ClearArrivals)
  \/ HandleUrlItem
  \/ HandleQuality(ClearArrivals)
  \/ Download
  \/ PostQuality
  \/ clear_history(ClearArrivals)
  \/ HandleMenu(ClearArrivals)

SpecClear == InitClear /\ [][NextClear]_vars

-----------------------------------------------------------------------------
(* Specification of URL validation and classification: a message of two     *)
(* URLs, the first any string over the lexical parts below                  *)

\* the lexical parts a URL string is put together from
UrlParts == { "http://", "https://", "ftp://", "HTTPS://", "www.",
              "youtube.com", "instagram.com", "twitter.com", "tiktok.com", "vimeo.com",
              "youtu.be", "example.com", "/watch" }

UrlStrings == UNION { [1..n -> UrlParts] : n \in 1..MaxParts }

UrlMessages == { <<url, ValidUrl>> : url \in UrlStrings }

UrlMessageArrivals == { x \in UrlArrivals(UrlMessages, MaxTokens) : x.user = 101 }

NextUrl ==
  \/ HandleUrlCheck(UrlMessageArrivals)
  \/ HandleUrlItem

SpecUrl == Init /\ [][NextUrl]_vars

-----------------------------------------------------------------------------
(* Specification of cancelling: one user's sessions, with callbacks for     *)
(* every token issued so far, live or not, arriving or waiting in the queue *)

Issued == 1..(nextToken - 1)

CancelArrivals ==
  { x \in (IF Cardinality(Live) < MaxLive
           THEN UrlArrivals({ <<ValidUrl>> }, MaxTokens) ELSE {})
          \cup CallbackArrivals({ d \in CallbackData :
                                    /\ d[1] \in {"cancel", "media", "quality", "link", "split"}
                                    /\ TokenOf(d) \in Issued }) :
      x.user = 101 }

CancelPresses ==
  { x \in CallbackArrivals({ d \in CallbackData :
                               d[1] \in {"cancel", "quality"} /\ d[2] \in Issued }) :
      x.user = 101 }

NextCancel ==
  \/ Enqueue(CancelPresses)
  \/ HandleUrlCheck(CancelArrivals)
  \/ HandleUrlItem
  \/ HandleCancel(CancelArrivals)
  \/ HandleMedia(CancelArrivals)
  \/ HandleQuality(CancelArrivals)
  \/ HandleLink(CancelArrivals)
  \/ HandleSplit(CancelArrivals)
  \/ Download
  \/ PostMedia
  \/ FinishMedia
  \/ PostQuality
  \/ PostSplit
  \/ SplitStep

SpecCancel == Init /\ [][NextCancel]_vars

-----------------------------------------------------------------------------
(* Claims about the admission gate, checked under SpecRate *)

\* rows of u in the interactions table that are less than one hour old
RowsInLastHour(u) == CountSince(interactions, u, now - Window)

\* rows of u in the interactions table, of any age
RowsEver(u) == CountSince(interactions, u, -1)

\* sessions opened for u at the ticks w .. w + Window - 1, one rolling hour
AdmittedInWindow(u, w) == CountSince(admitted, u, w - 1) - CountSince(admitted, u, w + Window - 1)

AdmitStep(u) == cur.pc = "idle" /\ cur'.pc = "url_loop" /\ cur'.user = u
RejectStep(u) == reply' # reply /\ reply'.text = "Rate limit exceeded" /\ reply'.to = u

\* C1: handle_url lets a message through its rate check only while the
\* identity has fewer than 10 logged interactions in the last hour (so the
\* first ten logged submissions pass), and answers "Rate limit exceeded" only
\* when it has 10 or more (the eleventh); rows older than one hour no longer
\* count, so the identity is admitted again once they have aged out.
C1_AdmissionFollowsWindowCount ==
  [][\A u \in Users :
       /\ AdmitStep(u) => RowsInLastHour(u) < RateLimit
       /\ RejectStep(u) => RowsInLastHour(u) >= RateLimit]_vars

\* C1 witness: an identity that holds at least ten logged rows, was answered
\* "Rate limit exceeded", and is admitted again with all its rows aged out.
C1_Witness ==
  \E u \in Users :
    /\ cur.pc = "url_loop" /\ cur.user = u
    /\ reply.text = "Rate limit exceeded" /\ reply.to = u
    /\ RowsEver(u) >= RateLimit
    /\ RowsInLastHour(u) = 0

\* C2: in every reachable state, no identity has more than 10 admitted URL
\* submissions (sessions opened) inside any one rolling one-hour window.
C2_AtMostTenAdmittedPerWindow ==
  \A u \in Users, w \in Time : AdmittedInWindow(u, w) <= RateLimit

\* C3: a rate-limit rejection inserts no interaction row, creates no session
\* and starts no discovery; every admitted valid URL (session opened) adds
\* exactly one row to the interactions table.
C3_RejectionIsFrameAdmissionLogsOnce ==
  [][/\ \A u \in Users :
          RejectStep(u) =>
            /\ UNCHANGED <<interactions, admitted, bot_data, nextToken, errors>>
            /\ cur'.pc = "idle"
     /\ nextToken' = nextToken + 1 =>
          interactions'[cur.user][now] = interactions[cur.user][now] + 1]_vars

-----------------------------------------------------------------------------
(* Claims about the callback handlers, checked under Spec *)

\* the texts the media, quality, link and split branches answer a callback
\* with once they are past their session check
PastSessionCheck ==
  { "No downloadable video formats found", "Select a video quality", "Error processing video",
    "Downloading", "Splitting video", "Download the video here", "Error fetching download link" }

\* a waiting callback query of kind media, quality, link or split is taken and
\* its token is not in the session table
TakesExpired ==
  /\ cur.pc = "idle" /\ pending # <<>> /\ pending' = Tail(pending)
  /\ Head(pending).kind = "callback"
  /\ Head(pending).data[1] \in {"media", "quality", "link", "split"}
  /\ TokenOf(Head(pending).data) \notin Live

\* C4: a media, quality, link or split callback whose token is not in the
\* session table is answered "Session expired" and has no other effect: no
\* fetch starts, the scratch directory, the history, interaction and errors
\* tables and the session table stay as they are.  The branches' other
\* answers, and every fetch, are for tokens that are in the table.
C4_ExpiredTokenIsAnsweredAndFramed ==
  [][/\ TakesExpired =>
          /\ reply' # reply /\ reply'.text = "Session expired"
          /\ reply'.token = TokenOf(Head(pending).data)
     /\ (cur.pc = "idle" /\ reply' # reply /\ reply'.text = "Session expired") =>
          /\ reply'.token \notin Live
          /\ cur' = Idle
          /\ UNCHANGED <<bot_data, files, user_history, nextId, interactions, admitted,
                         errors, nextToken>>
     /\ (cur.pc = "idle" /\ cur'.pc = "download") => cur'.token \in Live
     /\ (cur.pc = "idle" /\ reply' # reply /\ reply'.text \in PastSessionCheck) =>
          reply'.token \in Live]_vars

\* C4 witness: a token the bot issued, whose session is over, has just been
\* answered "Session expired" while another session is live.
C4_Witness ==
  /\ reply.text = "Session expired" /\ reply.token > 0 /\ reply.token \notin Live
  /\ Live # {} /\ cur.pc = "idle"

\* a cancel for the token being fetched has arrived after the fetch started;
\* the download has returned with its file and the handler now makes its
\* cancellation check
CancelWaitsAtCheck ==
  /\ cur.pc = "fetched" /\ cur' # cur
  /\ ~cur.raised /\ Found(cur.handler) # {}
  /\ pending # <<>> /\ Head(pending).data = <<"cancel", cur.token>>

\* C5: when a cancel callback for a token arrives while that token's fetch
\* has started and has not passed its cancellation check, the handler ends
\* with the cancelled answer, delivers nothing and leaves none of its files
\* in the scratch directory.
C5_CancelDuringFetchCancels ==
  [][CancelWaitsAtCheck =>
       /\ reply'.text \in {"Download cancelled", "Splitting cancelled"}
       /\ delivered' = <<>>
       /\ \A f \in files' : f.stem # Stem(cur.handler)]_vars

\* C6: once the fallback prompt (link / split / cancel buttons) is the bot's
\* last answer, the token the buttons carry is still in the session table.
C6_TokenLiveAfterFallbackPrompt ==
  (cur.pc = "idle" /\ reply.text = "Size exceeds limit. Choose an option") =>
     reply.token \in Live

\* C7: a callback starts a fetch, closes a session or writes a history row
\* only when its sender is the user_id stored in the session.
C7_OnlyOwnerActsOnSession ==
  [][/\ (cur.pc = "idle" /\ cur'.pc = "download") =>
          cur'.user = bot_data[cur'.token].user_id
     /\ (cur.pc = "idle" /\ user_history' # user_history /\ cur'.pc = "download") =>
          \A r \in user_history' \ user_history : r.user_id = bot_data[cur'.token].user_id]_vars

\* the handler of kind h is at its size check with file f: the download
\* returned, f is the file found, the session is not cancelled
AtSizeCheck(h, f) ==
  /\ cur.pc = "fetched" /\ cur.handler = h /\ cur' # cur
  /\ ~cur.raised /\ Found(h) = {f} /\ ~bot_data[cur.token].cancelled

\* the media file is sent, or sending it raises
DeliveredOrSendFailed(kind, f) ==
  \/ delivered' = <<whole(kind, f)>> /\ reply' = reply
  \/ delivered' = <<>> /\ reply'.text = "Error downloading"

\* C8: a fetched video of at most 50 * 1024 * 1024 bytes is sent and a larger
\* one gets the fallback prompt; a fetched image of at most 10 * 1024 * 1024
\* bytes is sent and a larger one gets the too-large notice; the boundary
\* sizes themselves are sent.
C8_SizeBoundaries ==
  [][/\ \A f \in files :
          AtSizeCheck("quality", f) =>
            IF f.size <= 50 * 1024 * 1024
            THEN \/ delivered' = <<whole("video", f)>> /\ reply'.text = "Download complete"
                 \/ delivered' = <<>> /\ reply'.text = "Error downloading"
            ELSE /\ delivered' = <<>>
                 /\ reply'.text = "Size exceeds limit. Choose an option"
                 /\ keyboard' = FallbackKeyboard(cur.token, cur.format_id)
     /\ \A f \in files :
          AtSizeCheck("image", f) =>
            IF f.size <= 10 * 1024 * 1024
            THEN DeliveredOrSendFailed("image", f)
            ELSE delivered' = <<>> /\ reply'.text = "Size exceeds limit"]_vars

\* C8 witness: a video of exactly 50 MB has been sent.
C8_Witness ==
  /\ reply.text = "Download complete"
  /\ delivered = <<[kind |-> "video", size |-> 50 * 1024 * 1024,
                    bytes |-> 50 * 1024 * 1024, part |-> 0, of |-> 0,
                    ss |-> 0, t |-> 0, duration |-> 0]>>

\* C9: an audio or image handler whose fetch succeeded either sends the file
\* (size within 50 MB for audio, 10 MB for image) or sends the too-large
\* notice and no file; it never shows buttons (so no link/split prompt) and
\* never sends parts; after the too-large notice it goes on to report the
\* download complete, with no row added to the errors table.
C9_AudioImageDeliverOrNotice ==
  [][\A h \in {"audio", "image"} :
       /\ \A f \in files :
            AtSizeCheck(h, f) =>
              IF f.size <= (IF h = "audio" THEN 50 ELSE 10) * 1024 * 1024
              THEN DeliveredOrSendFailed(h, f)
              ELSE /\ delivered' = <<>> /\ reply'.text = "Size exceeds limit"
                   /\ cur'.pc = "log" /\ errors' = errors
       /\ (cur.pc \in {"fetched", "log"} /\ cur.handler = h /\ cur' # cur) =>
            /\ keyboard' = <<>>
            /\ \A i \in 1..Len(delivered') : delivered'[i].kind = h /\ delivered'[i].part = 0
       /\ (cur.pc = "log" /\ cur.handler = h /\ cur' # cur) =>
            reply'.text = "Download complete" /\ errors' = errors /\ cur' = Idle]_vars

\* C9 witness: an image one byte over 10 MB got the too-large notice, nothing
\* was sent, and the handler is about to log and report completion.
C9_Witness ==
  /\ cur.pc = "log" /\ cur.handler = "image"
  /\ reply.text = "Size exceeds limit" /\ delivered = <<>> /\ errors = 0

\* the split handler sends its last answer: the split has finished
SplitFinishes ==
  cur.pc = "split_loop" /\ cur'.pc = "idle" /\ reply'.text = "Video splitting complete"

\* the parts sent are those of a file of S > 0 bytes and duration D cut into
\* n = ceil(S / 50 MB) ranges that start at 0, follow one another and end at D
PartsCover(sent) ==
  LET n == Len(sent)
      S == sent[1].size
      D == sent[1].duration
  IN /\ n >= 1 /\ S > 0
     /\ (n - 1) * 50 * 1024 * 1024 < S /\ S <= n * 50 * 1024 * 1024
     /\ \A i \in 1..n :
          /\ sent[i].kind = "part" /\ sent[i].part = i /\ sent[i].of = n
          /\ sent[i].size = S /\ sent[i].duration = D
          /\ sent[i].ss = (i - 1) * D
          /\ sent[i].ss + sent[i].t = i * D
     /\ sent[1].ss = 0
     /\ \A i \in 1..(n - 1) : sent[i].ss + sent[i].t = sent[i + 1].ss
     /\ sent[n].ss + sent[n].t = n * D

\* C10: a finished split of a file of S > 0 bytes and duration D has sent
\* exactly n = ceil(S / 50 MB) parts; part i (from 0) starts at i * D / n and
\* lasts D / n, so the parts start at 0, each starts where the one before
\* ends, and the last ends at D.  (ss and t are numerators over n.)
C10_SplitPartsCoverDuration == [][SplitFinishes => PartsCover(delivered')]_vars

\* C10 witness: a file of 150 MB has been split and sent as exactly 3 parts.
C10_Witness ==
  /\ cur.pc = "idle" /\ reply.text = "Video splitting complete" /\ Len(delivered) = 3
  /\ delivered[1].size = 3 * 50 * 1024 * 1024

-----------------------------------------------------------------------------
(* Claims about the history table, checked under SpecHistory *)

\* C11: every history append (quality, audio, image, split failure) adds one
\* row for the appending identity and leaves it with at most 100 rows: one
\* more than before below 100, else 100; a row that goes is a row of that
\* identity no newer than any row it keeps, and the rows of other identities
\* stay.  So past 100 appends exactly 100 rows remain, the most recent ones.
C11_HistoryKeepsHundredMostRecent ==
  [][user_history' # user_history =>
       \E u \in Users :
         LET new == user_history' \ user_history
             gone == user_history \ user_history'
             before == Cardinality(Mine(user_history, u))
             kept == Mine(user_history', u)
         IN /\ Cardinality(new) = 1 /\ \A r \in new : r.user_id = u /\ r.timestamp = now
            /\ Cardinality(kept) <= 100
            /\ Cardinality(kept) = IF before < 100 THEN before + 1 ELSE 100
            /\ gone \subseteq Mine(user_history, u)
            /\ \A g \in gone, k \in kept : g.timestamp <= k.timestamp]_vars

\* C11 witness: user 101 held 100 rows, two more were appended, and it holds
\* exactly 100: the two new ones and 98 of the old.
C11_Witness ==
  /\ Cardinality(Mine(user_history, 101)) = 100
  /\ Cardinality({ r \in Mine(user_history, 101) : r.id <= 0 }) = 98
  /\ \E r \in user_history : r.id = 1
  /\ \E r \in user_history : r.id = 2

-----------------------------------------------------------------------------
(* Claims about selections and the history they leave, checked under Spec *)

\* the quality branch takes a selection on a live token and its history
\* transaction commits
SelectionLogged ==
  /\ cur.pc = "idle" /\ cur'.pc = "download" /\ cur'.handler = "quality"
  /\ user_history' # user_history

\* C12: a rendition selected on the live token of an admitted submission
\* ends with the file sent (size within the limit) or the fallback prompt
\* (size above it), and the history of the identity that submitted the URL
\* then holds exactly one row more than before.
C12_SelectionAddsOneRowForSubmitter ==
  [][/\ SelectionLogged =>
          LET owner == bot_data[cur'.token].user_id
          IN /\ Cardinality(Mine(user_history', owner))
                  = Cardinality(Mine(user_history, owner)) + 1
             /\ \A r \in user_history' \ user_history : r.user_id = owner
     /\ \A f \in files :
          AtSizeCheck("quality", f) =>
            /\ UNCHANGED user_history
            /\ reply'.text \in {"Download complete", "Size exceeds limit. Choose an option",
                                "Error downloading"}]_vars

\* a fetch handler (audio, image, quality, split) ends its session
SessionEnds == cur.pc \in {"fetched", "log", "split_loop"} /\ cur'.pc = "idle"

\* C13: a session that ends after the user selected a video quality, audio
\* or image (delivered, too large, fetch failed, file missing, cancelled,
\* split done or failed) has appended exactly one history row.
C13_OneHistoryAppendPerSelection ==
  [][SessionEnds => nextId' - cur.first = 1]_vars

\* a step of handle_url
UrlStep == cur.pc = "url_loop" \/ (cur.pc = "idle" /\ cur'.pc = "url_loop")

\* the video listing ends the session: no playable format, or the backend raised
ListingFails ==
  /\ reply' # reply
  /\ reply'.text \in {"No downloadable video formats found", "Error processing video"}

\* C14: a session that fails during discovery (the backend raising in
\* handle_url, the video listing finding no downloadable format or raising)
\* appends nothing to the history: no step of handle_url and no failing
\* listing changes user_history.
C14_DiscoveryFailureLogsNoHistory ==
  [][UrlStep \/ ListingFails => user_history' = user_history /\ nextId' = nextId]_vars

\* the listing of a second session raised after the first one left a row
C14_Witness ==
  /\ reply.text = "Error processing video"
  /\ reply.token \notin Live
  /\ user_history # {}
  /\ cur.pc = "idle"

-----------------------------------------------------------------------------
(* Claims about the video quality keyboard, checked under Spec *)

\* the positions of the quality buttons of the keyboard kb
QualityButtons(kb) == { i \in DOMAIN kb : kb[i].data[1] = "quality" }

\* C15: the quality buttons offered for a session carry pairwise distinct
\* labels: of backend formats that render the same label only one is offered.
C15_QualityLabelsDistinct ==
  \A i \in QualityButtons(keyboard), j \in QualityButtons(keyboard) :
    keyboard[i].text = keyboard[j].text => i = j

\* bytes of the callback data "f1|f2|...": the second field of every selector
\* the bot emits is the session token, a UUID string
RECURSIVE Encoded(_)
Encoded(data) ==
  IF data = <<>> THEN 0
  ELSE LET k == Len(data)
           field == IF k = 2 THEN UuidLen ELSE Len(data[k])
       IN IF k = 1 THEN field ELSE Encoded(SubSeq(data, 1, k - 1)) + 1 + field

\* the buttons the claim expects for the backend's formats, in backend order
Offered(formats, t) ==
  LET Offerable(f) == /\ f.vcodec # "none" /\ f.resolution # "" /\ f.url
                      /\ Encoded(<<"quality", t, f.format_id, "video">>) <= CallbackDataMax
      offerable == SelectSeq(formats, Offerable)
  IN [i \in 1..Len(offerable) |->
        [text |-> offerable[i].resolution,
         data |-> <<"quality", t, offerable[i].format_id, "video">>]]

\* the video listing shows its keyboard
ListingOffers == reply' # reply /\ reply'.text = "Select a video quality"

C17_AwaitingSelectionHasAnOffer ==
  (reply.text = "Select a video quality" /\ reply.token \in Live)
    => QualityButtons(keyboard) # {}

-----------------------------------------------------------------------------
(* Claims about the session table and the scratch directory, checked under *)
(* SpecDisk                                                                 *)

\* a handler past its dispatch step: cur carries the token it works on
Running == cur.pc \in {"download", "fetched", "log", "split_loop"}

\* a handler that runs in one step answers with a terminal outcome
AnswersTerminal ==
  /\ cur.pc = "idle" /\ cur'.pc = "idle" /\ reply' # reply
  /\ reply'.text \in {"Operation cancelled", "Download the video here",
                      "Error fetching download link", "Error processing video",
                      "No downloadable video formats found"}

C19_NoArtifactLeftWhenHandlerReturns ==
  [][(Running /\ cur'.pc = "idle") => \A f \in files' : f.owner # cur.token]_vars

\* C20: of two sessions that were open together, the handler working for one
\* never picks up, overwrites or removes a file created for the other: every
\* file a running handler takes out of the directory, and the video file its
\* split works on, was created by its own session.
C20_HandlerTouchesOnlyOwnFiles ==
  [][Running =>
       /\ \A f \in files \ files' : f.owner = cur.token
       /\ cur'.pc = "split_loop" => cur'.video_file.owner = cur.token]_vars

-----------------------------------------------------------------------------
(* Claims about the order in which sessions are served *)

\* a handler begins its backend download
FetchStarts == cur' # cur /\ cur'.pc = "download"

\* C21: for every token at most one fetch or split is ever in progress: a
\* fetch starts only while no handler runs and for a token that is in the
\* session table, the token stays there while its fetch runs, is gone when
\* the fetch handler returns, and a token that has left the table never comes
\* back, so a second callback with the same token starts no second fetch.
C21_OneFetchPerToken ==
  [][/\ FetchStarts => cur.pc = "idle" /\ cur'.token \in Live
     /\ Running => cur.token \in Live
     /\ (Running /\ cur'.pc = "idle") => cur.token \notin Live'
     /\ \A t \in 1..(nextToken - 1) : t \notin Live => t \notin Live']_vars

\* the quality button of a token is pressed again while its fetch runs
C21_Witness ==
  /\ cur.pc = "download" /\ cur.handler = "quality"
  /\ pending # <<>>
  /\ Head(pending).data = <<"quality", cur.token, cur.format_id, "video">>

\* C22: the fetches of unrelated sessions are not serialized: the blocking
\* backend call of one session never keeps the callback of another live
\* session waiting for its handler to start.
C22_OtherSessionNeverWaitsForFetch ==
  ~ /\ cur.pc = "download"
    /\ pending # <<>>
    /\ TokenOf(Head(pending).data) \in Live \ {cur.token}

-----------------------------------------------------------------------------
(* Claims about storage failures *)

\* the quality branch writes its history row and goes on to its download
QualityLogs == cur.pc = "idle" /\ cur'.pc = "download" /\ cur'.handler = "quality"

\* the audio or image branch writes its history row after the file was handled
MediaLogs == cur.pc = "log" /\ cur' # cur

\* C23: a history write that fails during a selection is swallowed: whether
\* or not the row is stored, the quality branch goes on to its download with
\* the session untouched, and the audio and image branches report completion
\* and close the session, leaving deliveries and files as they were.
C23_HistoryFailureLeavesOutcome ==
  [][/\ QualityLogs =>
          /\ reply'.text = "Downloading" /\ reply'.token = cur'.token
          /\ bot_data' = bot_data /\ files' = files /\ errors' = errors
     /\ MediaLogs =>
          /\ cur' = Idle
          /\ reply'.text = "Download complete" /\ reply'.token = cur.token
          /\ Live' = Live \ {cur.token}
          /\ files' = files /\ delivered' = delivered /\ errors' = errors]_vars

\* an audio file was delivered and the session closed although the history
\* write failed: no row was ever stored
C23_Witness ==
  /\ cur.pc = "idle"
  /\ reply.text = "Download complete" /\ reply.token \notin Live
  /\ delivered # <<>> /\ delivered[1].kind = "audio"
  /\ user_history = {} /\ nextId = 1

-----------------------------------------------------------------------------
(* Claims about clearing the history, checked under SpecClear *)

\* the bot reports to user u that the history was cleared
ReportsCleared(u) ==
  reply' # reply /\ reply'.to = u /\ reply'.text = "Your history has been cleared"

\* C24: when clear_history reports "Your history has been cleared" to a user,
\* the table holds no row of that user (the count read after the delete is
\* zero), and the rows of every other user, the session table and the
\* interactions of the rate limit are as they were.
C24_ClearedMeansNoRowsAndNothingElseTouched ==
  [][\A u \in Users :
       ReportsCleared(u) =>
         /\ Mine(user_history', u) = {}
         /\ \A v \in Users \ {u} : Mine(user_history', v) = Mine(user_history, v)
         /\ bot_data' = bot_data
         /\ interactions' = interactions /\ admitted' = admitted]_vars

\* user 101's history was cleared while user 102 keeps rows, a session is
\* open and a URL was admitted in this run
C24_Witness ==
  /\ reply.text = "Your history has been cleared" /\ reply.to = 101
  /\ Mine(user_history, 101) = {}
  /\ Mine(user_history, 102) # {}
  /\ Live # {}
  /\ nextId > 1

-----------------------------------------------------------------------------
(* Claims about URL validation and classification, checked under SpecUrl *)

\* handle_url is at the URL url of its message
AtUrl(url) == cur.pc = "url_loop" /\ cur.urls[cur.idx] = url

\* the string begins with http:// or https://, an optional www., and one of
\* the five hosts
BeginsWithSupportedHost(url) ==
  \E scheme \in {"http://", "https://"},
     host \in {"youtube.com", "instagram.com", "twitter.com", "tiktok.com", "vimeo.com"} :
    \/ Len(url) >= 2 /\ SubSeq(url, 1, 2) = <<scheme, host>>
    \/ Len(url) >= 3 /\ SubSeq(url, 1, 3) = <<scheme, "www.", host>>

\* C25: validate_url is true exactly for the strings that begin with http://
\* or https://, an optional www. and one of youtube.com, instagram.com,
\* twitter.com, tiktok.com, vimeo.com: handle_url opens a token for such a
\* string and answers every other string as unsupported.
C25_ValidExactlyForSupportedPrefix ==
  [][\A url \in UrlStrings :
       AtUrl(url) =>
         IF BeginsWithSupportedHost(url)
         THEN nextToken' = nextToken + 1 /\ reply'.text # "Unsupported URL"
         ELSE nextToken' = nextToken /\ reply'.text = "Unsupported URL"
                                     /\ bot_data' = bot_data]_vars

\* https://example.com was answered as unsupported, and the loop is at the
\* second URL of the message
C25_Witness ==
  /\ cur.pc = "url_loop" /\ cur.idx = 2
  /\ cur.urls[1] = <<"https://", "example.com">>
  /\ reply.text = "Unsupported URL"
  /\ nextToken = 1 /\ Live = {}

\* the platform the claim names for a URL
FirstPlatform(url) ==
  LET Has(part) == \E i \in DOMAIN url : url[i] = part
  IN CASE Has("youtube.com") \/ Has("youtu.be") -> "youtube"
       [] ~(Has("youtube.com") \/ Has("youtu.be")) /\ Has("instagram.com") -> "instagram"
       [] ~(Has("youtube.com") \/ Has("youtu.be") \/ Has("instagram.com"))
            /\ Has("twitter.com") -> "twitter"
       [] ~(Has("youtube.com") \/ Has("youtu.be") \/ Has("instagram.com")
              \/ Has("twitter.com")) /\ Has("tiktok.com") -> "tiktok"
       [] ~(Has("youtube.com") \/ Has("youtu.be") \/ Has("instagram.com")
              \/ Has("twitter.com") \/ Has("tiktok.com")) /\ Has("vimeo.com") -> "vimeo"
       [] OTHER -> "unknown"

\* C26: get_platform gives the first platform, in the order youtube (youtube.com
\* or youtu.be), instagram, twitter, tiktok, vimeo, whose host the URL
\* contains; every session is stored with that platform of its URL, and it is
\* never "unknown".
C26_SessionPlatformIsFirstMatch ==
  \A t \in Live :
    /\ bot_data[t].platform = FirstPlatform(bot_data[t].url)
    /\ bot_data[t].platform # "unknown"

\* a URL that begins with vimeo.com and also contains youtube.com is accepted
\* and classified as youtube
C26_Witness ==
  /\ 1 \in Live
  /\ bot_data[1].url = <<"https://", "vimeo.com", "youtube.com">>
  /\ bot_data[1].platform = "youtube"

-----------------------------------------------------------------------------
(* Claims about the URLs of one message, checked under SpecRate *)

\* handle_url makes its pass for the URL url of its message
ItemStep(url) == AtUrl(url) /\ cur' # cur

\* handle_url makes its pass for a URL that is not the last of its message
MoreUrlsFollow == cur.pc = "url_loop" /\ cur' # cur /\ cur.idx < Len(cur.urls)

\* C27: a URL of a message that fails validate_url is reported as unsupported,
\* opens no session, records no interaction and reaches no backend; the URLs
\* after it are still processed, and each valid URL gets the next fresh token,
\* which is not in the session table and leaves the entries there untouched.
C27_BadUrlSkippedOthersProcessed ==
  [][/\ ItemStep(BadUrl) =>
          /\ reply'.text = "Unsupported URL"
          /\ bot_data' = bot_data /\ nextToken' = nextToken
          /\ interactions' = interactions /\ admitted' = admitted
          /\ errors' = errors
     /\ ItemStep(ValidUrl) =>
          /\ nextToken' = nextToken + 1
          /\ nextToken \notin Live
          /\ Live' \in { Live, Live \cup {nextToken} }
          /\ \A t \in Live : bot_data'[t] = bot_data[t]
     /\ MoreUrlsFollow => cur' = [cur EXCEPT !.idx = @ + 1]]_vars

\* the unsupported first URL of a message was answered and the loop goes on
\* to the valid second one
C27_Witness ==
  /\ cur.pc = "url_loop" /\ cur.idx = 2
  /\ cur.urls = <<BadUrl, ValidUrl>>
  /\ reply.text = "Unsupported URL"
  /\ Live = {}

-----------------------------------------------------------------------------
(* Claims about cancelling, checked under SpecCancel *)

\* the cancel branch answers for a token
Cancels == cur.pc = "idle" /\ reply' # reply /\ reply'.text = "Operation cancelled"

\* a callback handler answers about a token that is not in the session table
AnswersAbsentToken ==
  /\ cur.pc = "idle" /\ reply' # reply
  /\ reply'.token # 0 /\ reply'.token \notin Live

\* the cancel callback at the head of the queue, for a token that is not in
\* the session table, is handled
AbsentCancelHandled ==
  /\ cur.pc = "idle" /\ pending # <<>> /\ pending' # pending
  /\ Head(pending).kind = "callback"
  /\ Head(pending).data[1] = "cancel" /\ Head(pending).data[2] \notin Live

\* a step that changes nothing a user or a later handler can observe
NothingChanges ==
  UNCHANGED <<cur, bot_data, reply, keyboard, files, user_history, nextId, errors,
              interactions, admitted, nextToken>>

-----------------------------------------------------------------------------
(* Claims about the order of the parts of a split, checked under SpecDisk *)

\* C30: during a split the parts are extracted and delivered in the order
\* 1, 2, ..., numParts, each labelled "Part i of numParts" and each once; no
\* part is extracted before the part before it was delivered and its file
\* removed.
C30_PartsDeliveredInOrder ==
  cur.pc = "split_loop" =>
    /\ Len(delivered) = cur.i /\ cur.i <= cur.num_parts
    /\ \A k \in 1..Len(delivered) :
         /\ delivered[k].kind = "part"
         /\ delivered[k].part = k /\ delivered[k].of = cur.num_parts
    /\ \A f \in files : f.stem = "part" => f.owner # cur.token

\* two of three parts have been delivered
C30_Witness ==
  /\ cur.pc = "split_loop" /\ cur.num_parts = 3 /\ cur.i = 2
  /\ Len(delivered) = 2
  /\ delivered[1].part = 1 /\ delivered[2].part = 2

-----------------------------------------------------------------------------
(* Claims about a split that fails part of the way *)

\* the split fails at a part after at least one part was delivered
PartialSplitFails ==
  /\ cur.pc = "split_loop" /\ cur.i >= 1 /\ cur'.pc = "idle"
  /\ reply'.text # "Video splitting complete"

\* C31: a split that fails at part k >= 2 leaves the k-1 delivered parts
\* delivered and answers with a report of its own, one that differs from the
\* report "Error splitting video" of a split that failed before any part was
\* delivered.
C31_PartialSplitFailureReportedDistinctly ==
  [][PartialSplitFails =>
       /\ delivered' = delivered /\ Len(delivered) = cur.i
       /\ reply' # reply
       /\ reply'.text # "Error splitting video"]_vars

\* the split handler returns, by success or by a failure
SplitReturns == Running /\ cur.handler = "split" /\ cur'.pc = "idle"

\* C32: when the split handler returns, however it ends, neither the video it
\* downloaded nor a part file it extracted is still in the directory.
C32_SplitLeavesNoSourceNoPart ==
  [][SplitReturns =>
       \A f \in files' : f.owner = cur.token => f.stem \notin {"video", "part"}]_vars

-----------------------------------------------------------------------------
(* Claims about the size of the parts of a split *)

\* C33: every part that the split has delivered is a file of at most 50 MB,
\* whatever the size of the source and however its bytes are spread over its
\* duration.
C33_DeliveredPartsWithinLimit ==
  \A k \in 1..Len(delivered) :
    delivered[k].kind = "part" => delivered[k].bytes <= SplitPartMB * MB

-----------------------------------------------------------------------------
(* Claims about the details shown for a discovered URL *)

\* handle_url makes its pass for a valid URL and the backend's extract_info
\* does not raise
DiscoverySucceeds ==
  /\ cur.pc = "url_loop" /\ cur' # cur
  /\ validate_url(cur.urls[cur.idx])
  /\ reply'.text # "Error processing"

\* C34: a valid, admitted URL whose backend discovery succeeds gets a live
\* session that awaits the media type, whether or not the backend reported a
\* file size: the pass ends with the token in the session table and the media
\* type keyboard shown.
C34_DiscoveredUrlAwaitsSelection ==
  [][DiscoverySucceeds =>
       /\ nextToken \in DOMAIN bot_data'
       /\ reply'.text = "Select media type to download"
       /\ keyboard' = MediaTypeKeyboard(nextToken)]_vars

-----------------------------------------------------------------------------
(* Specification of the direct link: URL submissions and link callbacks, *)
(* which may be pressed while handle_url is still at work on its message *)

LinkData == { <<"link", t, f>> : t \in Tokens, f \in FormatIds }

LinkArrivals ==
  UrlArrivals({ <<ValidUrl>>, <<ValidUrl, ValidUrl>> }, MaxTokens)
    \cup CallbackArrivals(LinkData)

LinkPresses == CallbackArrivals({ d \in LinkData : d[2] \in Live })

NextLink ==
  \/ Enqueue(LinkPresses)
  \/ HandleUrlCheck(LinkArrivals)
  \/ HandleUrlItem
  \/ HandleLink(LinkArrivals)

SpecLink == Init /\ [][NextLink]_vars

-----------------------------------------------------------------------------
(* Claims about the direct link, checked under SpecLink *)

\* a link callback for a live token is dispatched from the queue
LinkOnLive ==
  /\ cur.pc = "idle" /\ pending # <<>>
  /\ Head(pending).kind = "callback" /\ Head(pending).data[1] = "link"
  /\ Head(pending).data[2] \in Live
  /\ pending' = Tail(pending)

\* C35: a link callback on a live token writes no file and ends in one of two
\* ways: the link of the chosen format is sent and the session is closed, or
\* a failure is reported and the session is closed; the session is never
\* closed without one of the two answers.
C35_LinkSentOrFailureReported ==
  [][LinkOnLive =>
       /\ files' = files /\ delivered' = <<>>
       /\ Head(pending).data[2] \notin DOMAIN bot_data'
       /\ reply' # reply
       /\ reply'.token = Head(pending).data[2]
       /\ reply'.text \in {"Download the video here", "Error fetching download link"}]_vars

-----------------------------------------------------------------------------
(* main.py, the first version of the bot: handle_url and the quality branch *)
(* of handle_callback                                                       *)

\* main.py:129-130, len(f"quality|{request_id}|{format_id}".encode('utf-8'))
main_QualityDataBytes(format_id) == Len("quality") + 1 + UuidLen + 1 + Len(format_id)

\* main.py:130, "if len(...) > 64: continue"
main_Fits(f) == main_QualityDataBytes(f.format_id) <= CallbackDataMax

\* main.py:125-133: one button per format whose callback data fits
main_QualityKeyboard(request_id, video_formats) ==
  LET fitting == SelectSeq(video_formats, main_Fits)
  IN [i \in 1..Len(fitting) |->
        Button(fitting[i].resolution, <<"quality", request_id, fitting[i].format_id>>)]

\* main.py:211-222
main_FallbackKeyboard(request_id, format_id) ==
  << Button("Direct Download Link", <<"link", request_id, format_id>>),
     Button("Split into Parts", <<"split", request_id, format_id>>) >>

\* main.py:85-149.  The INSERT into interactions is outside every try: when it
\* raises the handler ends there.  The entry is stored before the backend is
\* asked and deleted again on each of the three failures.
main_handle_url(A) ==
  /\ \E upd \in Taking(A, "url") :
       LET user_id == upd.user
           video_url == upd.urls
           request_id == nextToken
       IN \/ UNCHANGED <<bot_data, nextToken, interactions, reply, keyboard>>
          \/ /\ interactions' = AddRow(interactions, user_id)
             /\ nextToken' = nextToken + 1
             /\ \/ \E formats \in FormatLists :
                     LET video_formats == SelectSeq(formats, Playable)
                         kb == main_QualityKeyboard(request_id, video_formats)
                     IN IF video_formats = <<>>
                        THEN /\ Send(user_id, "No downloadable video formats found",
                                     request_id, <<>>)
                             /\ UNCHANGED bot_data
                        ELSE IF kb = <<>>
                        THEN /\ Send(user_id, "No valid video formats available",
                                     request_id, <<>>)
                             /\ UNCHANGED bot_data
                        ELSE /\ Send(user_id, "Please select a video quality", request_id, kb)
                             /\ bot_data' = Put(request_id,
                                                [video_url |-> video_url, user_id |-> user_id])
                \/ /\ Send(user_id, "Sorry, I couldn't process that URL", request_id, <<>>)
                   /\ UNCHANGED bot_data
  /\ Consume
  /\ UNCHANGED <<now, cur, admitted, user_history, nextId, errors, files>>

\* main.py:160-180: the expiry check, the UPDATE and the INSERT into
\* user_history (outside every try: when the transaction raises the handler
\* ends there), then the backend download begins
main_handle_quality(A) ==
  /\ \E upd \in Callbacks(A, "quality") :
       LET request_id == upd.data[2]
           format_id == upd.data[3]
       IN IF request_id \notin Live THEN Expired(upd, request_id)
          ELSE \/ UNCHANGED <<cur, bot_data, user_history, nextId, errors, files,
                              reply, keyboard>>
               \/ /\ nextId <= MaxHistory
                  /\ user_history' = user_history \cup
                       {[id |-> nextId, user_id |-> upd.user,
                         url |-> bot_data[request_id].video_url,
                         selected_quality |-> format_id, timestamp |-> now]}
                  /\ nextId' = nextId + 1
                  /\ cur' = [pc |-> "main_download", user |-> upd.user, token |-> request_id,
                             format_id |-> format_id]
                  /\ UNCHANGED <<bot_data, errors, files, reply, keyboard>>
  /\ Consume
  /\ UNCHANGED <<now, nextToken, interactions, admitted>>

\* main.py:230-235, the except branch of the quality download
main_QualityFailed ==
  /\ Send(cur.user, "Sorry, there was an error downloading the video", cur.token, <<>>)
  /\ bot_data' = Del(cur.token)
  /\ UNCHANGED delivered

\* main.py:182-235: ydl.download, the search for "video.*", the size check,
\* and the delivery or the prompt.  written is the directory after the
\* backend's download, which may have raised.
main_quality_download ==
  /\ cur.pc = "main_download"
  /\ \E raised \in BOOLEAN,
        written \in {files} \cup { Written(File("video", ext, 0, size, cur.token)) :
                                     ext \in Extensions("video"), size \in Sizes("video") } :
       LET found == { f \in written : f.stem = "video" }
       IN IF raised
          THEN main_QualityFailed /\ files' = written
          ELSE IF found = {}
          THEN /\ Send(cur.user, "Error: Video file not found", cur.token, <<>>)
               /\ bot_data' = Del(cur.token)
               /\ files' = written
               /\ UNCHANGED delivered
          ELSE \E video_file \in found :
                 IF WithinLimit(video_file.size, VideoLimitMB)
                 THEN \/ /\ delivered' = Append(delivered, whole("video", video_file))
                         /\ files' = written \ {video_file}
                         /\ UNCHANGED <<bot_data, reply, keyboard>>
                      \/ main_QualityFailed /\ files' = written
                 ELSE /\ Send(cur.user, "Video size exceeds Telegram's 50 MB limit. Choose an option",
                              cur.token, main_FallbackKeyboard(cur.token, cur.format_id))
                      /\ files' = written \ {video_file}
                      /\ UNCHANGED <<bot_data, delivered>>
  /\ cur' = Idle
  /\ UNCHANGED <<now, pending, nextToken, interactions, admitted, user_history, nextId, errors>>

-----------------------------------------------------------------------------
(* Specification of main.py: URL submissions and quality selections *)

main_Arrivals ==
  UrlArrivals({ <<ValidUrl>>, <<BadUrl>> }, MaxTokens)
    \cup CallbackArrivals({ <<"quality", t, f>> : t \in Tokens, f \in FormatIds })

NextMain ==
  \/ main_handle_url(main_Arrivals)
  \/ main_handle_quality(main_Arrivals)
  \/ main_quality_download

SpecMain == Init /\ [][NextMain]_vars

-----------------------------------------------------------------------------
(* Claims about main.py, checked under SpecMain *)

\* the quality selection of main.py ends with the video delivered, with the
\* file not found, or with a download error
main_QualityEndsTerminal ==
  /\ cur.pc = "main_download" /\ cur'.pc = "idle"
  /\ \/ delivered' # <<>>
     \/ /\ reply' # reply
        /\ reply'.text \in {"Error: Video file not found",
                            "Sorry, there was an error downloading the video"}

\* C36: in main.py a quality selection that ends with the video delivered,
\* with the file not found or with a download error leaves its token out of
\* the session table, so that a later quality callback with that token is
\* answered "Session expired" and starts no second download.
C36_MainTerminalOutcomeRemovesToken ==
  [][main_QualityEndsTerminal => cur.token \notin DOMAIN bot_data']_vars

-----------------------------------------------------------------------------
(* The /feedback command *)

MaxFeedback == 2        \* feedback rows the interactions table takes

\* "/feedback" followed by context.args
FeedbackUpdate(u, args) ==
  [kind |-> "command", user |-> u, urls |-> <<>>, data |-> <<"feedback">> \o args]

\* rows of u in interactions beyond those of its admitted URLs
FeedbackRows(u) == CountSince(interactions, u, -1) - CountSince(admitted, u, -1)

\* lines 271-297: without text the command only answers; with text it INSERTs
\* a row (user_id, "feedback", feedback_text) INTO interactions and thanks.
\* The INSERT may raise, and so may the message to the admin after the commit.
feedback(A) ==
  /\ \E upd \in Taking(A, "command") :
       /\ upd.data[1] = "feedback"
       /\ LET user_id == upd.user
              feedback_text == Tail(upd.data)
          IN IF feedback_text = <<>>
             THEN /\ Send(user_id, "Please provide feedback", 0, <<>>)
                  /\ UNCHANGED interactions
             ELSE \/ /\ FeedbackRows(user_id) < MaxFeedback
                     /\ interactions' = AddRow(interactions, user_id)
                     /\ \/ Send(user_id, "Thank you for your feedback", 0, <<>>)
                        \/ Send(user_id, "Error sending feedback", 0, <<>>)
                  \/ /\ Send(user_id, "Error sending feedback", 0, <<>>)
                     /\ UNCHANGED interactions
  /\ Consume
  /\ UNCHANGED <<now, cur, bot_data, nextToken, admitted, user_history, nextId,
                 errors, files>>

-----------------------------------------------------------------------------
(* Specification of the admission gate with feedback: as SpecRate without *)
(* cancel, and the identities may send /feedback                          *)

FeedbackArrivals ==
  (IF Cardinality(Live) < MaxLive THEN UrlArrivals({ <<ValidUrl>> }, MaxTokens) ELSE {})
    \cup { FeedbackUpdate(u, args) : u \in Users, args \in { <<>>, <<"Great", "bot!">> } }

NextFeedback ==
  \/ Tick
  \/ HandleUrlCheck(FeedbackArrivals)
  \/ HandleUrlItem
  \/ feedback(FeedbackArrivals)

SpecFeedback == InitRate /\ [][NextFeedback]_vars

-----------------------------------------------------------------------------
(* Claims about the quota, checked under SpecFeedback *)

\* URL submissions of u admitted in the last hour (sessions opened)
AdmittedInLastHour(u) == CountSince(admitted, u, now - Window)

\* C37: only admitted URL submissions use up an identity's quota: handle_url
\* answers "Rate limit exceeded" only to an identity with 10 or more URL
\* submissions admitted in the last hour, however often it has sent
\* /feedback.
C37_OnlyAdmittedUrlsUseQuota ==
  [][\A u \in Users : RejectStep(u) => AdmittedInLastHour(u) >= RateLimit]_vars

-----------------------------------------------------------------------------
(* Claims about the isolation of identities, checked under Spec *)

\* the step belongs to a handler that runs for identity u: a running handler
\* of u goes on, or an update of u is dispatched and answered or started
ActsFor(u) ==
  \/ cur.pc # "idle" /\ cur.user = u
  \/ cur.pc = "idle" /\ reply' # reply /\ reply'.to = u
  \/ cur.pc = "idle" /\ cur'.pc # "idle" /\ cur'.user = u

\* what the admission decisions and the history of identity a depend on: its
\* rows in interactions, its rows in user_history, and its live sessions,
\* since a selection on a session that is gone is answered "Session expired"
\* and logs nothing
SameViewFor(a) ==
  /\ interactions'[a] = interactions[a]
  /\ Mine(user_history', a) = Mine(user_history, a)
  /\ \A t \in Live :
       bot_data[t].user_id = a => t \in DOMAIN bot_data' /\ bot_data'[t] = bot_data[t]

\* C38: rate limiting and history are isolated per identity: a step of a
\* handler that runs for another identity b leaves unchanged everything the
\* admission decisions, the history count and the history content of identity
\* a depend on, so that two runs that differ only in what b does show a the
\* same decisions and the same history.
C38_OtherIdentityLeavesViewUnchanged ==
  [][\A a \in Users, b \in Users : (a # b /\ ActsFor(b)) => SameViewFor(a)]_vars

-----------------------------------------------------------------------------
(* Calls to the messaging API that raise inside a handler *)

\* lines 1093-1097: the cancel branch when reply_text("Operation cancelled.")
\* raises.  The branch has no try: the flag is written, the exception leaves
\* handle_callback, and the del of line 1098 is not reached.
HandleCancelRaised(A) ==
  /\ \E upd \in Callbacks(A, "cancel") :
       LET request_id == upd.data[2]
       IN /\ request_id \in Live
          /\ bot_data' = [bot_data EXCEPT ![request_id].cancelled = TRUE]
  /\ Consume
  /\ UNCHANGED <<now, cur, nextToken, interactions, admitted,
                 user_history, nextId, errors, files, reply, keyboard>>

\* lines 853-856 when progress_msg.delete() raises (the progress message is
\* gone, or the call fails): "Error: Video file not found." is sent, the entry
\* is deleted, and the exception takes the handler to its except branch
QualityNotFoundRaised ==
  /\ cur.pc = "fetched" /\ cur.handler = "quality"
  /\ ~cur.raised /\ Found("quality") = {}
  /\ Send(cur.user, "Error: file not found", cur.token, <<>>)
  /\ bot_data' = Del(cur.token)
  /\ cur' = [cur EXCEPT !.pc = "except"]
  /\ UNCHANGED <<now, pending, nextToken, interactions, admitted,
                 user_history, nextId, errors, files, delivered>>

\* lines 907-930, entered from QualityNotFoundRaised: the report, the sweep,
\* the errors row, and "del context.bot_data[request_id]", which raises
\* KeyError for the entry that is already gone and ends the handler
QualityExcept ==
  /\ cur.pc = "except"
  /\ QualityFailed
  /\ UNCHANGED <<now, pending, nextToken, interactions, admitted, user_history, nextId>>

-----------------------------------------------------------------------------
(* Specification of cancelling with failing calls: as SpecCancel, and the *)
(* two calls above may raise                                              *)

NextFail ==
  \/ NextCancel
  \/ HandleCancelRaised(CancelArrivals)
  \/ QualityNotFoundRaised
  \/ QualityExcept

SpecFail == Init /\ [][NextFail]_vars

-----------------------------------------------------------------------------
(* Claims about the cancelled flag and the accesses to the session table, *)
(* checked under SpecFail                                                  *)

\* C39: whenever no cancel handler is in the middle of its run, every entry
\* of the session table has cancelled = FALSE: the cancel handler sets the
\* flag and deletes the entry in one run.  (A cancel handler runs in one step
\* of the model, so no state lies in the middle of its run.)
C39_LiveEntriesNotCancelled ==
  \A t \in Live : ~bot_data[t].cancelled

\* C40: a handler reads and deletes the entry of its token only while the
\* token is in the session table: from the dispatch of its callback to its
\* last statement, its error path included, the token of a running handler is
\* in the table.
C40_RunningHandlerTokenPresent ==
  cur.pc \in {"download", "fetched", "log", "split_loop", "except"} => cur.token \in Live

====
